---- MODULE Spec2Model ----
(***************************************************************************)
(* A model of the Constraint-Resolver repository: the Logical Form         *)
(* template matcher (src/logical_form.py) and the strict constraint solver *)
(* with its restriction test (src/resolver.py, src/ontology_adapter.py).   *)
(***************************************************************************)
EXTENDS Integers, Sequences, FiniteSets, TLC

VARIABLES
  pc,        \* position of the driver: which call has been made
  this,      \* root Component of the LogicalForm match_template is called on
  other,     \* root Component of the LogicalForm passed to match_template
  result,    \* what match_template returned (or that it raised)
  s,         \* the Sense given to matches_restrictions
  rs,        \* the list of Restrictions given to matches_restrictions
  verdict,   \* what matches_restrictions returned
  relations, \* Resolver.relations: the unary and the binary relations
  senses,    \* Resolver.senses: type variable -> list of Senses
  bindings,  \* Resolver.bindings: (type variable, sense) -> role -> list
  unsatisfied_roles,  \* what the last _satisfy_constraints returned
  mode,      \* the ResolveType of the request
  error,     \* the exception the last call ended with, or "none"
  solves,    \* the calls of _satisfy_constraints made on this Resolver
  _root,     \* root Component of the LogicalForm that is queried and resolved
  registry,  \* the comps given to the last call of LogicalForm.resolve
  answer,    \* what LogicalForm.resolved gave when read since the last resolve
  failure,   \* the exception the last call on it ended with, or "none"
  resolves,  \* the calls of LogicalForm.resolve made on it
  seen,      \* Resolver.__seen_components, as the set of their ids
  hash,      \* hash() of the id strings in this process
  earlier,   \* relations and senses as each extraction so far left them
  extracts,  \* the extractions made in this process
  component_id,  \* LogicalForm.__component_id
  builds     \* the template builds made in this process, with the ids of each

matcherVars == <<this, other, result>>

restrictionVars == <<s, rs, verdict>>

resolverVars == <<relations, senses, bindings, unsatisfied_roles, mode, error, solves>>

referenceVars == <<_root, registry, answer, failure, resolves>>

extractVars == <<seen, hash, earlier, extracts>>

templateVars == <<component_id, builds>>

vars == <<pc, matcherVars, restrictionVars, resolverVars, referenceVars,
          extractVars, templateVars>>

(***************************************************************************)
(* Python values                                                           *)
(***************************************************************************)
\* Python's None where a string is expected (a parameter bound to no word).
NoneVal == "<None>"

\* Component.word is None or a list: an optional list.
None == [none |-> TRUE, items |-> <<>>]

List(l) == [none |-> FALSE, items |-> l]

\* bool(x) of an optional list: None and [] are both false.
TruthyOpt(w) == ~w.none /\ w.items /= <<>>

\* bool(x) of a list.
Truthy(l) == l /= <<>>

Range(f) == {f[i] : i \in DOMAIN f}

\* The empty dict.
NoParams == [k \in {} |-> NoneVal]

\* Merge with the later binding overwriting the earlier one.
MergeLastWins(first, second) ==
  [k \in (DOMAIN first) \cup (DOMAIN second) |->
     IF k \in DOMAIN second THEN second[k] ELSE first[k]]

\* for k, v in second.items(): if k not in first: first[k] = v
Merge(first, second) ==
  [k \in (DOMAIN first) \cup (DOMAIN second) |->
     IF k \in DOMAIN first THEN first[k] ELSE second[k]]

(***************************************************************************)
(* LogicalForm.Component                                                   *)
(***************************************************************************)
\* A Component: its role-groups are a list of dicts, each dict modelled as
\* the list of its (name, children) items in insertion order.
Component(comp_id, indicator, comp_type, word, param_mapping, roles) ==
  [kind |-> "comp", comp_id |-> comp_id, indicator |-> indicator,
   comp_type |-> comp_type, word |-> word, param_mapping |-> param_mapping,
   resolved |-> TRUE, roles |-> roles]

\* A role child that is a plain string (a role value parsed from XML).
Str(text) == [kind |-> "str", text |-> text]

\* self.roles = [{}]
NoRoles == << <<>> >>

Role(name, comps) == [name |-> name, comps |-> comps]

\* set(rg.keys())
RoleNames(rg) == {rg[i].name : i \in DOMAIN rg}

\* rg[name]
RoleComps(rg, name) == rg[CHOOSE i \in DOMAIN rg : rg[i].name = name].comps

(***************************************************************************)
(* LogicalForm._compare_help                                               *)
(***************************************************************************)
\* What a call returns: (match, params), or that it raised.
Returned(ok, params) == [ok |-> ok, params |-> params, err |-> FALSE]

Raised == [ok |-> FALSE, params |-> NoParams, err |-> TRUE]

lst_common(a, b) == Range(a) \cap Range(b) /= {}

\* The node-level test with the types left out.
SurfaceMatchNoTypes(t, o) ==
  /\ ~(Truthy(t.indicator) /\ Truthy(o.indicator))
       \/ lst_common(t.indicator, o.indicator)
  /\ ~(TruthyOpt(t.word) /\ TruthyOpt(o.word))
       \/ lst_common(t.word.items, o.word.items)

\* The node-level test of indicators, types and words.
SurfaceMatch(t, o) ==
  /\ ~(Truthy(t.indicator) /\ Truthy(o.indicator))
       \/ lst_common(t.indicator, o.indicator)
  /\ ~(Truthy(t.comp_type) /\ Truthy(o.comp_type))
       \/ lst_common(t.comp_type, o.comp_type)
  /\ ~(TruthyOpt(t.word) /\ TruthyOpt(o.word))
       \/ lst_common(t.word.items, o.word.items)

\* The pairs (index of rg in this.roles, index of rg_other in other.roles),
\* in the order of the two nested loops.
AllPairs(n, m) == [k \in 1..(n * m) |-> <<((k - 1) \div m) + 1, ((k - 1) % m) + 1>>]

\* check_q: the pairs whose template roles are all roles of the command.
check_q(t, o) ==
  SelectSeq(AllPairs(Len(t.roles), Len(o.roles)),
            LAMBDA p : RoleNames(o.roles[p[2]]) \subseteq RoleNames(t.roles[p[1]]))

RECURSIVE _compare_help(_, _)
RECURSIVE MatchRoles(_, _, _, _)
RECURSIVE MatchGroups(_, _, _, _)

\* Only the first candidate of the template is tried.
RoleResultsFirstOnly(to_match, candidates) ==
  [c \in {1} |-> _compare_help(to_match, candidates[1])]

\* results = map(lambda x: _compare_help(to_match, x), candidates)
RoleResults(to_match, candidates) ==
  [c \in DOMAIN candidates |-> _compare_help(to_match, candidates[c])]

\* The loop without its test for an empty result list: results[0] raises.
RECURSIVE MatchRolesUnguarded(_, _, _, _)
MatchRolesUnguarded(this_rg, other_rg, n, rg_set) ==
  IF n > Len(this_rg) THEN Returned(TRUE, rg_set)
  ELSE IF this_rg[n].name \notin RoleNames(other_rg)
  THEN MatchRolesUnguarded(this_rg, other_rg, n + 1, rg_set)
  ELSE
    LET results == RoleResults(this_rg[n].comps[1], RoleComps(other_rg, this_rg[n].name))
        hits == SelectSeq(results, LAMBDA r : r.ok)
    IN  IF hits = <<>> \/ \E c \in DOMAIN results : results[c].err THEN Raised
        ELSE MatchRolesUnguarded(this_rg, other_rg, n + 1, Merge(rg_set, hits[1].params))

\* The loop over the names of one (this_rg, other_rg) pair, from the n-th
\* name on, with the parameters rg_set gathered so far.
MatchRoles(this_rg, other_rg, n, rg_set) ==
  IF n > Len(this_rg) THEN Returned(TRUE, rg_set)
  ELSE IF this_rg[n].name \notin RoleNames(other_rg)
  THEN MatchRoles(this_rg, other_rg, n + 1, rg_set)
  ELSE IF Len(this_rg[n].comps) = 0 THEN Raised  \* this_rg[name][0]: IndexError
  ELSE
    LET to_match == this_rg[n].comps[1]
        candidates == RoleComps(other_rg, this_rg[n].name)
        results == RoleResults(to_match, candidates)
        hits == SelectSeq(results, LAMBDA r : r.ok)
    IN  IF \E c \in DOMAIN results : results[c].err THEN Raised
        ELSE IF hits = <<>> THEN Returned(FALSE, NoParams)
        ELSE MatchRoles(this_rg, other_rg, n + 1, Merge(rg_set, hits[1].params))

\* The loop over check_q ended after its first pair, matching or not.
MatchGroupsFirstOnly(t, o, q, k) ==
  IF k > Len(q) THEN Returned(FALSE, NoParams)
  ELSE MatchRoles(t.roles[q[k][1]], o.roles[q[k][2]], 1, NoParams)

\* The loop over check_q from its k-th pair on: the first pair all of whose
\* roles match ends it.
MatchGroups(t, o, q, k) ==
  IF k > Len(q) THEN Returned(FALSE, NoParams)
  ELSE
    LET r == MatchRoles(t.roles[q[k][1]], o.roles[q[k][2]], 1, NoParams)
    IN  IF r.err THEN Raised
        ELSE IF r.ok THEN r
        ELSE MatchGroups(t, o, q, k + 1)

_compare_help(t, o) ==
  IF t.kind = "str"
  THEN \* other.word of a string, or "in None", raises
       IF o.kind = "str" \/ o.word.none THEN Raised
       ELSE Returned(t.text \in Range(o.word.items),
                     [p \in o.param_mapping |-> t.text])
  ELSE IF o.kind = "str" THEN Raised   \* a string has no attributes
  ELSE IF ~SurfaceMatch(t, o) THEN Returned(FALSE, NoParams)
  ELSE
    LET mapped_val == IF TruthyOpt(t.word) THEN t.word.items[1] ELSE NoneVal
        param_map == [k \in o.param_mapping |-> mapped_val]
        g == MatchGroups(t, o, check_q(t, o), 1)
    IN  IF g.err THEN Raised
        ELSE IF ~g.ok THEN Returned(FALSE, NoParams)
        ELSE Returned(TRUE, Merge(param_map, g.params))

\* LogicalForm.match_template: both logical forms hold a root Component
\* (the constructor builds one or raises), so the root tests pass through.
match_template(self, lf) == _compare_help(self, lf)

(***************************************************************************)
(* ID resolution: Component.resolved, Component.resolve, Component._move   *)
(***************************************************************************)
\* A component that stands for one defined elsewhere: Component(from_id,
\* resolved=False).
Placeholder(from_id) ==
  [Component(from_id, <<>>, <<>>, None, {}, NoRoles) EXCEPT !.resolved = FALSE]

RECURSIVE Concat(_)
\* The concatenation of a list of lists.
Concat(ls) == IF ls = <<>> THEN <<>> ELSE Head(ls) \o Concat(Tail(ls))

\* The children of a component as the three nested loops meet them:
\* (role-group, role, position in the role's list).
ChildPaths(c) ==
  Concat([g \in DOMAIN c.roles |->
            Concat([r \in DOMAIN c.roles[g] |->
                      [k \in DOMAIN c.roles[g][r].comps |-> <<g, r, k>>]])])

ChildAt(c, p) == c.roles[p[1]][p[2]].comps[p[3]]

\* The component with the child at p replaced (a child changed in place).
SetChild(c, p, kid) == [c EXCEPT !.roles[p[1]][p[2]].comps[p[3]] = kid]

\* What reading the property gives: a boolean, or an AttributeError.
Answer(val) == [val |-> val, err |-> FALSE]

NoAttribute == [val |-> FALSE, err |-> TRUE]

RECURSIVE Resolved(_)
RECURSIVE ResolvedLoop(_, _, _, _)
\* The loop of the property from the i-th child on: `result and
\* comp.resolved` reads comp.resolved only while result is true.
ResolvedLoop(c, paths, i, res) ==
  IF i > Len(paths) THEN Answer(res)
  ELSE IF ~res THEN ResolvedLoop(c, paths, i + 1, FALSE)
  ELSE LET comp == ChildAt(c, paths[i])
       IN  IF comp.kind = "str" THEN NoAttribute
           ELSE LET a == Resolved(comp)
                IN  IF a.err THEN NoAttribute
                    ELSE ResolvedLoop(c, paths, i + 1, a.val)

\* The property that looks at the component alone.
ResolvedOwnFlagOnly(c) == Answer(c.resolved)

\* Component.resolved
Resolved(c) == ResolvedLoop(c, ChildPaths(c), 1, c.resolved)

\* Component._move(other): every attribute is taken from the root of other.
_move(self, root) ==
  [self EXCEPT !.comp_id = root.comp_id,
               !.indicator = root.indicator,
               !.comp_type = root.comp_type,
               !.word = root.word,
               !.param_mapping = root.param_mapping,
               !.resolved = root.resolved,
               !.roles = root.roles]

\* What a call of resolve leaves: the component as it is then, and the
\* exception raised, if any.
Left(c, err) == [comp |-> c, err |-> err]

RECURSIVE ComponentResolve(_, _)
RECURSIVE ResolveLoop(_, _, _, _)
\* The loop over the children of a component that expects no resolution
\* itself, from the i-th child on.
ResolveLoop(c, paths, i, table) ==
  IF i > Len(paths) THEN Left(c, "none")
  ELSE LET kid == ChildAt(c, paths[i])
       IN  IF kid.kind = "str" THEN Left(c, "AttributeError")
           ELSE LET a == Resolved(kid)
                IN  IF a.err THEN Left(c, "AttributeError")
                    ELSE IF a.val THEN ResolveLoop(c, paths, i + 1, table)
                    ELSE LET r == ComponentResolve(kid, table)
                             c1 == SetChild(c, paths[i], r.comp)
                         IN  IF r.err /= "none" THEN Left(c1, r.err)
                             ELSE ResolveLoop(c1, paths, i + 1, table)

\* Component.resolve(comps); the registry maps ids to the roots of
\* LogicalForms.
ComponentResolve(c, table) ==
  IF ~c.resolved
  THEN IF c.comp_id \notin DOMAIN table THEN Left(c, "CommandTemplateError")
       ELSE Left(_move(c, table[c.comp_id]), "none")
  ELSE ResolveLoop(c, ChildPaths(c), 1, table)

\* LogicalForm.resolve(comps)
LogicalFormResolve(root, table) ==
  LET a == Resolved(root)
  IN  IF a.err THEN Left(root, "AttributeError")
      ELSE IF a.val THEN Left(root, "none")
      ELSE ComponentResolve(root, table)

\* No logical form is being resolved.
NoReference ==
  /\ _root = Placeholder("")
  /\ registry = <<>>
  /\ answer = "none"
  /\ failure = "none"
  /\ resolves = 0

\* No extraction has been made: the Resolver has seen nothing.
NoExtraction ==
  /\ seen = {}
  /\ hash = <<>>
  /\ earlier = <<>>
  /\ extracts = 0

\* No template has been built: the class counter is as declared.
NoTemplate ==
  /\ component_id = 0
  /\ builds = <<>>

(***************************************************************************)
(* Sense, Role, Restriction (ontology_adapter.py)                          *)
(***************************************************************************)
\* Restriction.values is the string 'type' (the wildcard) or a list.
StrValue(str) == [isStr |-> TRUE, str |-> str, items |-> <<>>]

ListValue(items) == [isStr |-> FALSE, str |-> "", items |-> items]

Restriction(type, values) == [type |-> type, values |-> values]

\* Restriction._ALL_TYPES
ALL_TYPES == "type"

\* Restriction.wildcard
wildcard(r) == r.values.isStr /\ r.values.str = ALL_TYPES

\* A Role; Role.role is its name.
RoleInfo(role, optional, restrictions) ==
  [role |-> role, optional |-> optional, restrictions |-> restrictions]

\* Role.is_specific
is_specific(r) == ~\E i \in DOMAIN r.restrictions : wildcard(r.restrictions[i])

\* A Sense: roles is the list of the Roles of its dict, features a dict.
Sense(name, roles, features, ancestry) ==
  [name |-> name, roles |-> roles, features |-> features, ancestry |-> ancestry]

\* A (feature name, value) pair of a features restriction; the value is a
\* string or a tuple, kept here as its text.
Feature(name, isStr, val) == [name |-> name, isStr |-> isStr, val |-> val]

\* str.lower() on the feature values in use.
lower(str) ==
  CASE str = "HUMAN" -> "human"
    [] str = "Human" -> "human"
    [] str = "NATURAL" -> "natural"
    [] OTHER -> str

(***************************************************************************)
(* Resolver.matches_restrictions                                           *)
(***************************************************************************)
\* The test of a type or typeq restriction that is not the wildcard: true
\* when the restriction fails.
TypeFails(sn, r) ==
  LET anc_overlap == SelectSeq(sn.ancestry, LAMBDA x : x \in Range(r.values.items))
  IN  sn.name \notin Range(r.values.items) /\ anc_overlap = <<>>

RECURSIVE FeaturesPassCaseSensitive(_, _, _)
\* The loop over the features comparing the values as they are.
FeaturesPassCaseSensitive(sn, fs, i) ==
  IF i > Len(fs) THEN TRUE
  ELSE IF ~fs[i].isStr THEN FeaturesPassCaseSensitive(sn, fs, i + 1)
  ELSE IF fs[i].name \notin DOMAIN sn.features THEN FALSE
  ELSE IF sn.features[fs[i].name] /= fs[i].val THEN FALSE
  ELSE FeaturesPassCaseSensitive(sn, fs, i + 1)

RECURSIVE FeaturesPass(_, _, _)
\* The loop over the (f_name, f_val) pairs of a features restriction, from
\* the i-th on: FALSE where the code returns False.
FeaturesPass(sn, fs, i) ==
  IF i > Len(fs) THEN TRUE
  ELSE IF ~fs[i].isStr THEN FeaturesPass(sn, fs, i + 1)
  ELSE IF fs[i].name \notin DOMAIN sn.features THEN FALSE
  ELSE IF lower(sn.features[fs[i].name]) /= lower(fs[i].val) THEN FALSE
  ELSE FeaturesPass(sn, fs, i + 1)

RECURSIVE RestrictionsLoop(_, _, _)
\* The loop over the restrictions from the i-th on.
RestrictionsLoop(sn, rl, i) ==
  IF i > Len(rl) THEN TRUE
  ELSE IF rl[i].type \in {"type", "typeq"}
  THEN IF wildcard(rl[i]) THEN RestrictionsLoop(sn, rl, i + 1)
       ELSE IF TypeFails(sn, rl[i]) THEN FALSE
       ELSE RestrictionsLoop(sn, rl, i + 1)
  ELSE IF rl[i].type = "features"
  THEN IF ~FeaturesPass(sn, rl[i].values.items, 1) THEN FALSE
       ELSE RestrictionsLoop(sn, rl, i + 1)
  ELSE RestrictionsLoop(sn, rl, i + 1)

matches_restrictions(sn, rl) == RestrictionsLoop(sn, rl, 1)

\* No call of matches_restrictions is under way.
NoRestrictionTest ==
  /\ s = Sense("", <<>>, <<>>, <<>>)
  /\ rs = <<>>
  /\ verdict = FALSE

(***************************************************************************)
(* Resolver                                                                *)
(***************************************************************************)
\* The empty dict.
EmptyDict == <<>>

\* d[k] = v
DictSet(d, k, v) == [x \in (DOMAIN d) \cup {k} |-> IF x = k THEN v ELSE d[x]]

\* Resolver.__init__
NewResolver ==
  /\ relations = [unary |-> {}, binary |-> {}]
  /\ senses = EmptyDict
  /\ bindings = EmptyDict
  /\ unsatisfied_roles = {}
  /\ mode = "strict"
  /\ error = "none"
  /\ solves = 0

(***************************************************************************)
(* Resolver._satisfy_constraints                                           *)
(***************************************************************************)
\* A key of Resolver.bindings and an entry of its lists: (type variable,
\* sense name).
Binding(t_var, name) == <<t_var, name>>

RECURSIVE MakeGroups(_, _, _)
\* The dict groups after the loop over the binary relations, taken in the
\* order rels: a list of [parent, children] in insertion order.
MakeGroups(rels, i, groups) ==
  IF i > Len(rels) THEN groups
  ELSE LET v1 == rels[i][1]
           v2 == rels[i][2]
           at == {g \in DOMAIN groups : groups[g].parent = v1}
       IN  IF at = {}
           THEN MakeGroups(rels, i + 1,
                           Append(groups, [parent |-> v1, children |-> <<v2>>]))
           ELSE MakeGroups(rels, i + 1,
                  [g \in DOMAIN groups |->
                     IF g \in at
                     THEN [groups[g] EXCEPT !.children = Append(@, v2)]
                     ELSE groups[g]])

\* The first sense of a child that fits the role, alone.
MatchesFirstOnly(sn, c, r) ==
  LET fit == SelectSeq(sn[c], LAMBDA x : matches_restrictions(x, r.restrictions))
  IN  IF fit = <<>> THEN <<>> ELSE <<Binding(c, fit[1].name)>>

\* The senses of a child that fit the role, as (child, sense name) pairs.
Matches(sn, c, r) ==
  LET fit == SelectSeq(sn[c], LAMBDA x : matches_restrictions(x, r.restrictions))
  IN  [i \in DOMAIN fit |-> Binding(c, fit[i].name)]

RECURSIVE FittingChildren(_, _, _, _)
\* fitting_children after the loop over the children from the i-th on.
FittingChildren(sn, children, r, i) ==
  IF i > Len(children) THEN <<>>
  ELSE Matches(sn, children[i], r) \o FittingChildren(sn, children, r, i + 1)

\* The roles of a sense the solver examines.
relevant_roles(p_sense) == SelectSeq(p_sense.roles, is_specific)

\* The marker test that leaves the count of the entries out.
AllUnsatisfiedAnyCount(b, key, p_sense) ==
  \A name \in DOMAIN b[key] : b[key][name] = <<>>

\* The test behind the 'ALL' marker: the key has an entry for every role
\* of the sense and every entry is empty.
AllUnsatisfied(b, key, p_sense) ==
  /\ Cardinality(DOMAIN b[key]) = Len(p_sense.roles)
  /\ \A name \in DOMAIN b[key] : b[key][name] = <<>>

\* The marker test that leaves the optionality out.
RoleUnsatisfiedAnyRole(r, fitting_children) == fitting_children = <<>>

\* The marker test that never marks.
RoleUnsatisfiedNever(r, fitting_children) == FALSE

\* The test behind a role's marker.
RoleUnsatisfied(r, fitting_children) == ~r.optional /\ fitting_children = <<>>

\* The list of a role after fitting_children is appended to it.
Extended(b, key, r, fitting_children) ==
  (IF r.role \in DOMAIN b[key] THEN b[key][r.role] ELSE <<>>) \o fitting_children

RECURSIVE RolesLoop(_, _, _, _, _, _, _)
\* The loop over relevant_roles from the i-th on; b is the binding table and
\* u the unsatisfied set so far.
RolesLoop(sn, key, children, rr, i, b, u) ==
  IF i > Len(rr) THEN [b |-> b, u |-> u]
  ELSE LET r == rr[i]
           fitting_children == FittingChildren(sn, children, r, 1)
           u1 == IF RoleUnsatisfied(r, fitting_children)
                 THEN u \cup {<<key, r.role>>} ELSE u
           b1 == DictSet(b, key,
                   DictSet(b[key], r.role, Extended(b, key, r, fitting_children)))
       IN  RolesLoop(sn, key, children, rr, i + 1, b1, u1)

RECURSIVE SensesLoop(_, _, _, _, _, _)
\* The loop over the senses of a parent from the i-th on.
SensesLoop(sn, parent, children, i, b, u) ==
  IF i > Len(sn[parent]) THEN [b |-> b, u |-> u]
  ELSE LET p_sense == sn[parent][i]
           key == Binding(parent, p_sense.name)
           b0 == IF key \in DOMAIN b THEN b ELSE DictSet(b, key, EmptyDict)
           done == RolesLoop(sn, key, children, relevant_roles(p_sense), 1, b0, u)
           u1 == IF AllUnsatisfied(done.b, key, p_sense)
                 THEN done.u \cup {<<key, "ALL">>} ELSE done.u
       IN  SensesLoop(sn, parent, children, i + 1, done.b, u1)

RECURSIVE GroupsLoop(_, _, _, _, _)
\* The loop over the groups from the i-th on.
GroupsLoop(sn, groups, i, b, u) ==
  IF i > Len(groups) THEN [b |-> b, u |-> u]
  ELSE LET done == SensesLoop(sn, groups[i].parent, groups[i].children, 1, b, u)
       IN  GroupsLoop(sn, groups, i + 1, done.b, done.u)

\* No mode is taken for fuzzy.
IsFuzzyNever(m) == FALSE

\* mode is ResolveType.FUZZY
IsFuzzy(m) == m = "fuzzy"

\* The orders in which a set can be iterated.
Orders(S) ==
  {o \in [1..Cardinality(S) -> S] : \A i, j \in DOMAIN o : i /= j => o[i] /= o[j]}

(***************************************************************************)
(* The logical forms the matcher is run on                                 *)
(***************************************************************************)
\* The size of the two trees together: the role children of the subject and
\* of the template, at any depth.
MaxNodes == 3

\* The most role-groups a component carries.
MaxGroups == 2

RoleNameList == <<"AFFECTED", "AGENT">>

\* A component of a parsed sentence: words as the parser lists them.
SubjectComp(roles) ==
  Component("V2", <<"BARE">>, <<"FOOD">>, List(<<"APPLE", "TART">>), {}, roles)

\* Components of a template: a word wildcard that captures "obj", and a
\* closed set of words that captures "obj" and "food".
TemplateAny(roles) == Component("-2", <<>>, <<>>, List(<<>>), {"obj"}, roles)

TemplateWords(roles) ==
  Component("-3", <<>>, <<"FOOD">>, List(<<"CAKE", "PIE">>), {"obj", "food"}, roles)

Leaves(side) ==
  IF side = "subject" THEN {Str("PIE"), SubjectComp(NoRoles)}
  ELSE IF side = "template" THEN {TemplateAny(NoRoles), TemplateWords(NoRoles)}
  ELSE {TemplateWords(NoRoles), Placeholder("X"), Placeholder("Y")}

Inner(side, roles) ==
  IF side = "subject" THEN {SubjectComp(roles)}
  ELSE IF side = "template" THEN {TemplateAny(roles), TemplateWords(roles)}
  ELSE {TemplateAny(roles)}

RECURSIVE Kids(_, _)
RECURSIVE RoleLists(_, _)
RECURSIVE Groups(_, _)
RECURSIVE GroupSeqs(_, _, _)

\* The role-group lists holding k components in all.
RolesOf(k, side) ==
  IF k = 0 THEN {NoRoles}
  ELSE UNION {GroupSeqs(k, side, g) : g \in 1..MaxGroups}

\* The role children that are k components in all (the child and what is
\* below it).
Kids(k, side) ==
  IF k = 1 THEN Leaves(side)
  ELSE UNION {Inner(side, r) : r \in RolesOf(k - 1, side)}

\* The non-empty child lists of a role, k components in all.
RoleLists(k, side) ==
  UNION {{<<kid>> \o rest :
            kid \in Kids(j, side),
            rest \in (IF j = k THEN {<<>>} ELSE RoleLists(k - j, side))} :
         j \in 1..k}

\* The non-empty role-groups, k components in all.
Groups(k, side) ==
  {<<Role(RoleNameList[n], l)>> : n \in DOMAIN RoleNameList, l \in RoleLists(k, side)}
  \cup UNION {{<<Role(RoleNameList[1], la), Role(RoleNameList[2], lb)>> :
                 la \in RoleLists(j, side), lb \in RoleLists(k - j, side)} :
              j \in 1..(k - 1)}

\* The lists of g non-empty role-groups, k components in all.
GroupSeqs(k, side, g) ==
  IF k < g THEN {}
  ELSE IF g = 1 THEN {<<grp>> : grp \in Groups(k, side)}
  ELSE UNION {{<<grp>> \o rest :
                 grp \in Groups(j, side), rest \in GroupSeqs(k - j, side, g - 1)} :
              j \in 1..(k - g + 1)}

\* The root of a parsed sentence.
SubjectRoots(k) ==
  {Component("V1", <<"F">>, <<"EAT">>, List(<<"EAT">>), {}, r) :
     r \in RolesOf(k, "subject")}

\* The root of a template: typed, all wildcards with a parameter, or of a
\* type the subject does not have.
TemplateRoots(k) ==
  UNION {{Component("-1", <<"F">>, <<"EAT", "CONSUME">>, List(<<>>), {}, r),
          Component("-1", <<>>, <<>>, List(<<>>), {"obj"}, r),
          Component("-1", <<"F">>, <<"PUT">>, List(<<>>), {}, r)} :
         r \in RolesOf(k, "template")}

NoResult == Returned(FALSE, NoParams)

(***************************************************************************)
(* The driver: build two logical forms, match one against the other        *)
(***************************************************************************)
Init ==
  /\ pc = "built"
  /\ \E ks \in 0..MaxNodes : \E kt \in 0..(MaxNodes - ks) :
       /\ this \in SubjectRoots(ks)
       /\ other \in TemplateRoots(kt)
  /\ result = NoResult
  /\ NoRestrictionTest
  /\ NewResolver
  /\ NoReference
  /\ NoExtraction
  /\ NoTemplate

\* self.match_template(lf)
MatchTemplate ==
  /\ pc = "built"
  /\ result' = match_template(this, other)
  /\ pc' = "matched"
  /\ UNCHANGED <<this, other, restrictionVars, resolverVars, referenceVars, extractVars,
                 templateVars>>

Next == MatchTemplate

Spec == Init /\ [][Next]_vars

(***************************************************************************)
(* Single components, to exercise the node-level test                      *)
(***************************************************************************)
NodeIndicators == {<<>>, <<"F">>, <<"BARE", "SPEECHACT">>}

NodeTypes == {<<>>, <<"EAT">>, <<"PUT">>, <<"CONSUME", "EAT">>}

NodeWords ==
  {None, List(<<>>), List(<<"PIE">>), List(<<"CAKE", "PIE">>), List(<<"APPLE">>)}

\* The components compared: any indicators, types and words, and either no
\* role or one AGENT role.
NodeSubjects ==
  {Component("V1", i, t, w, {}, r) :
     i \in NodeIndicators, t \in NodeTypes, w \in NodeWords,
     r \in {NoRoles, << <<Role("AGENT", <<Str("PIE")>>)>> >>}}

NodeTemplates ==
  {Component("-1", i, t, w, {"obj"}, r) :
     i \in NodeIndicators, t \in NodeTypes, w \in NodeWords,
     r \in {NoRoles, << <<Role("AGENT", <<TemplateWords(NoRoles)>>)>> >>}}

InitNode ==
  /\ pc = "built"
  /\ this \in NodeSubjects
  /\ other \in NodeTemplates
  /\ result = NoResult
  /\ NoRestrictionTest
  /\ NewResolver
  /\ NoReference
  /\ NoExtraction
  /\ NoTemplate

SpecNode == InitNode /\ [][Next]_vars

(***************************************************************************)
(* Templates with references, and the registries they are resolved with    *)
(***************************************************************************)
\* The most components below the root of a logical form that is resolved.
MaxChildren == 2

\* The most calls of LogicalForm.resolve made on one logical form.
MaxResolves == 2

\* The logical forms: templates whose components may be references (the
\* root too), and parsed sentences.
ReferenceRoots ==
  UNION {{TemplateAny(r) : r \in RolesOf(k, "reference")} : k \in 0..MaxChildren}
  \cup {Placeholder("X")}
  \cup UNION {SubjectRoots(k) : k \in 0..1}

\* The roots of the templates a registry holds under X: a component without
\* references, one with a reference below it, and a reference.
TargetsOfX ==
  { Component("X", <<"F">>, <<"FOOD">>, List(<<"PIE">>), {"obj"}, NoRoles),
    Component("X", <<"F">>, <<"FOOD">>, List(<<>>), {},
              << <<Role("AGENT", <<Placeholder("Y")>>)>> >>),
    Placeholder("Z") }

TargetOfY == Component("Y", <<"BARE">>, <<"PERSON">>, List(<<"JOHN">>), {}, NoRoles)

Registries ==
  {<<>>, [id \in {"Y"} |-> TargetOfY]}
  \cup UNION {{[id \in {"X"} |-> x],
               [id \in {"X", "Y"} |-> IF id = "X" THEN x ELSE TargetOfY]} :
              x \in TargetsOfX}

InitReference ==
  /\ pc = "built"
  /\ _root \in ReferenceRoots
  /\ registry = <<>>
  /\ answer = "none"
  /\ failure = "none"
  /\ resolves = 0
  /\ this = SubjectComp(NoRoles)
  /\ other = TemplateAny(NoRoles)
  /\ result = NoResult
  /\ NoRestrictionTest
  /\ NewResolver
  /\ NoExtraction
  /\ NoTemplate

\* A read of LogicalForm.resolved.
ReadResolved ==
  /\ pc \in {"built", "resolved"}
  /\ LET a == Resolved(_root)
     IN  /\ answer' = IF a.err THEN "AttributeError"
                      ELSE IF a.val THEN "True" ELSE "False"
         /\ failure' = IF a.err THEN "AttributeError" ELSE "none"
  /\ UNCHANGED <<pc, _root, registry, resolves, matcherVars, restrictionVars,
                 resolverVars, extractVars, templateVars>>

\* A call of LogicalForm.resolve(comps).
ResolveReferences ==
  /\ pc \in {"built", "resolved"}
  /\ resolves < MaxResolves
  /\ \E table \in Registries :
       LET left == LogicalFormResolve(_root, table)
       IN  /\ registry' = table
           /\ _root' = left.comp
           /\ failure' = left.err
  /\ answer' = "none"
  /\ resolves' = resolves + 1
  /\ pc' = "resolved"
  /\ UNCHANGED <<matcherVars, restrictionVars, resolverVars, extractVars, templateVars>>

NextReference == ReadResolved \/ ResolveReferences

SpecReference == InitReference /\ [][NextReference]_vars

(***************************************************************************)
(* The senses and restrictions matches_restrictions is run on              *)
(***************************************************************************)
\* The longest restriction list handed to matches_restrictions.
MaxRestrictions == 2

RestrictionSenses ==
  { Sense("ont::person", <<>>, [f \in {"f::origin", "f::intentional"} |->
                                  IF f = "f::origin" THEN "Human" ELSE "+"],
          <<"mammal", "animate-obj", "phys-obj">>),
    Sense("ont::rock", <<>>, [f \in {"f::origin"} |-> "NATURAL"],
          <<"natural-obj", "phys-obj">>),
    Sense("ont::idea", <<>>, <<>>, <<>>) }

RestrictionPool ==
  { Restriction("type", StrValue(ALL_TYPES)),
    Restriction("typeq", StrValue(ALL_TYPES)),
    Restriction("type", ListValue(<<"vehicle", "animate-obj">>)),
    Restriction("type", ListValue(<<"ont::rock", "ont::idea">>)),
    Restriction("typeq", ListValue(<<"ont::person">>)),
    Restriction("features", ListValue(<<Feature("f::origin", TRUE, "human")>>)),
    Restriction("features",
                ListValue(<<Feature("f::mobility", FALSE, "(? mo f::fixed f::movable)"),
                            Feature("f::intentional", TRUE, "+")>>)),
    Restriction("features", ListValue(<<Feature("f::origin", TRUE, "natural"),
                                        Feature("f::mobility", TRUE, "f::fixed")>>)),
    Restriction("defaults", ListValue(<<Feature("f::origin", TRUE, "artifact")>>)) }

RestrictionLists ==
  UNION {[1..n -> RestrictionPool] : n \in 0..MaxRestrictions}

InitRestrictions ==
  /\ pc = "given"
  /\ s \in RestrictionSenses
  /\ rs \in RestrictionLists
  /\ verdict = FALSE
  /\ this = SubjectComp(NoRoles)
  /\ other = TemplateAny(NoRoles)
  /\ result = NoResult
  /\ NewResolver
  /\ NoReference
  /\ NoExtraction
  /\ NoTemplate

\* A call of Resolver.matches_restrictions.
MatchesRestrictions ==
  /\ pc = "given"
  /\ verdict' = matches_restrictions(s, rs)
  /\ pc' = "tested"
  /\ UNCHANGED <<s, rs, matcherVars, resolverVars, referenceVars, extractVars, templateVars>>

NextRestrictions == MatchesRestrictions

SpecRestrictions == InitRestrictions /\ [][NextRestrictions]_vars

(***************************************************************************)
(* The relations and senses the solver is run on                           *)
(***************************************************************************)
\* The most senses a type variable has.
MaxSenses == 2

\* The most calls of _satisfy_constraints made on one Resolver.
MaxSolves == 2

Animate == Restriction("type", ListValue(<<"animate-obj">>))

PhysObj == Restriction("type", ListValue(<<"phys-obj">>))

Human == Restriction("features", ListValue(<<Feature("f::origin", TRUE, "human")>>))

AnyType == Restriction("type", StrValue(ALL_TYPES))

AgentRoles ==
  { RoleInfo("agent", FALSE, <<Animate>>),
    RoleInfo("agent", TRUE, <<Animate>>),
    RoleInfo("agent", FALSE, <<AnyType, Human>>) }

AffectedRole == RoleInfo("affected", TRUE, <<PhysObj>>)

KillSenses ==
  {Sense("ont::kill", rl, <<>>, <<"destroy">>) :
     rl \in {<<>>} \cup {<<a>> : a \in AgentRoles}
                   \cup {<<a, AffectedRole>> : a \in AgentRoles}}

DestroySense ==
  Sense("ont::destroy", <<RoleInfo("affected", FALSE, <<PhysObj, Human>>)>>, <<>>, <<>>)

EndSense ==
  Sense("ont::end", <<RoleInfo("agent", TRUE, <<AnyType>>)>>, <<>>, <<>>)

PersonSense ==
  Sense("ont::person", <<>>, [f \in {"f::origin"} |-> "Human"],
        <<"mammal", "animate-obj", "phys-obj">>)

CompanySense ==
  Sense("ont::company", <<RoleInfo("affected", TRUE, <<PhysObj>>)>>,
        [f \in {"f::origin"} |-> "non-living"], <<"organization">>)

PetSense ==
  Sense("ont::pet", <<>>, <<>>, <<"animate-obj", "phys-obj">>)

RockSense ==
  Sense("ont::rock", <<>>, [f \in {"f::origin"} |-> "NATURAL"],
        <<"natural-obj", "phys-obj">>)

MusicSense == Sense("ont::music", <<>>, <<>>, <<"abstr-obj">>)

\* The sub-lists of a list of senses, at most MaxSenses long.
SubLists(pool) ==
  {SelectSeq(pool, LAMBDA x : x \in keep) :
     keep \in {k \in SUBSET Range(pool) : Cardinality(k) <= MaxSenses}}

KillLists ==
  UNION {SubLists(<<k, DestroySense, EndSense>>) : k \in KillSenses}

RelationSets ==
  { {<<"KILL_1", "JOHN_2">>},
    {<<"KILL_1", "JOHN_2">>, <<"KILL_1", "ROCK_3">>},
    {<<"KILL_1", "JOHN_2">>, <<"KILL_1", "ROCK_3">>, <<"JOHN_2", "ROCK_3">>} }

InitResolver ==
  /\ pc = "extracted"
  /\ \E binary \in RelationSets :
       relations = [unary |-> {"KILL_1", "JOHN_2", "ROCK_3"}, binary |-> binary]
  /\ \E k \in KillLists :
     \E j \in SubLists(<<PersonSense, CompanySense, PetSense>>) :
     \E r \in SubLists(<<RockSense, MusicSense>>) :
       senses = [t \in {"KILL_1", "JOHN_2", "ROCK_3"} |->
                   IF t = "KILL_1" THEN k ELSE IF t = "JOHN_2" THEN j ELSE r]
  /\ bindings = EmptyDict
  /\ unsatisfied_roles = {}
  /\ mode = "strict"
  /\ error = "none"
  /\ solves = 0
  /\ this = SubjectComp(NoRoles)
  /\ other = TemplateAny(NoRoles)
  /\ result = NoResult
  /\ NoRestrictionTest
  /\ NoReference
  /\ NoExtraction
  /\ NoTemplate

\* A call of Resolver._satisfy_constraints(m) on a Resolver, for the first
\* time or again; the set of relations is iterated in some order.
SatisfyConstraints ==
  /\ pc \in {"extracted", "solved", "failed"}
  /\ solves < MaxSolves
  /\ \E m \in {"strict", "fuzzy"} :
       /\ mode' = m
       /\ IF IsFuzzy(m)
          THEN /\ error' = "NotImplementedError"
               /\ pc' = "failed"
               /\ UNCHANGED <<bindings, unsatisfied_roles>>
          ELSE \E rels \in Orders(relations.binary) :
                 LET done == GroupsLoop(senses, MakeGroups(rels, 1, <<>>), 1, bindings, {})
                 IN  /\ bindings' = done.b
                     /\ unsatisfied_roles' = done.u
                     /\ error' = "none"
                     /\ pc' = "solved"
  /\ solves' = solves + 1
  /\ UNCHANGED <<relations, senses, matcherVars, restrictionVars, referenceVars,
                 extractVars, templateVars>>

NextResolver == SatisfyConstraints

SpecResolver == InitResolver /\ [][NextResolver]_vars

(***************************************************************************)
(* Resolver._get_relations_and_senses                                      *)
(***************************************************************************)
MAX_ID_RANGE == 1000

\* str.upper() on the words in use.
upper(str) ==
  CASE str = "rock" -> "ROCK"
    [] str = "kill" -> "KILL"
    [] str = "agent" -> "AGENT"
    [] str = "affected" -> "AFFECTED"
    [] OTHER -> str

\* The ontology behind OntologyAdapter.get_senses: the senses of a word,
\* looked up without regard to case.
get_senses(word) ==
  CASE upper(word) = "KILL" ->
         <<Sense("ont::kill", <<RoleInfo("agent", FALSE, <<Animate>>), AffectedRole>>,
                 <<>>, <<"destroy">>),
           DestroySense>>
    [] upper(word) = "JOHN" -> <<PersonSense, CompanySense>>
    [] upper(word) = "ROCK" -> <<RockSense, MusicSense>>
    [] upper(word) = "DOG" -> <<PetSense>>
    [] OTHER -> <<>>

\* A type variable name that also takes the number of the extraction in.
get_tvarOfThisRun(comp) ==
  <<upper(comp.word.items[1]), (hash[comp.comp_id] + extracts) % MAX_ID_RANGE>>

\* Resolver.get_tvar: the name WORD_n, kept as the pair of its two parts.
get_tvar(comp) ==
  <<upper(comp.word.items[1]), hash[comp.comp_id] % MAX_ID_RANGE>>

\* The part of a Resolver the extraction works on.
Extraction(seenIds, rels, sn) == [seen |-> seenIds, relations |-> rels, senses |-> sn]

\* A base case that stops at every component without roles.
IsBaseWithoutRoles(comp) == comp.kind = "str" \/ ~Truthy(comp.roles[1])

\* The base case of the walk: a plain string, or a component with neither
\* a word nor a role in its first role-group.
IsBase(comp) ==
  comp.kind = "str" \/ (~TruthyOpt(comp.word) /\ ~Truthy(comp.roles[1]))

\* The child of a role the walk looks at, taking the last one.
LookedAtLast(cs) == cs[Len(cs)]

\* The child of a role the walk looks at: cs[0].
LookedAt(cs) == cs[1]

RECURSIVE __rel_rest_help(_, _)
RECURSIVE RolesWalk(_, _, _, _)

\* The loop over the roles of the first role-group from the i-th on;
\* named says whether the component got a type variable.
RolesWalk(comp, named, i, ex) ==
  IF i > Len(comp.roles[1]) THEN ex
  ELSE LET child == LookedAt(comp.roles[1][i].comps)
           ex1 == IF child.kind /= "str" /\ TruthyOpt(child.word) /\ named
                  THEN [ex EXCEPT !.relations.binary =
                                    @ \cup {<<get_tvar(comp), get_tvar(child)>>}]
                  ELSE ex
       IN  RolesWalk(comp, named, i + 1, __rel_rest_help(child, ex1))

\* Resolver.__rel_rest_help(comp)
__rel_rest_help(comp, ex) ==
  IF IsBase(comp) THEN ex
  ELSE IF comp.comp_id \in ex.seen THEN ex
  ELSE LET ex1 == [ex EXCEPT !.seen = @ \cup {comp.comp_id}]
           ex2 == IF TruthyOpt(comp.word)
                  THEN [ex1 EXCEPT !.relations.unary = @ \cup {get_tvar(comp)},
                                   !.senses = DictSet(@, get_tvar(comp),
                                                      get_senses(comp.word.items[1]))]
                  ELSE ex1
       IN  RolesWalk(comp, TruthyOpt(comp.word), 1, ex2)

\* Resolver._get_relations_and_senses(lf), lf holding the tree root.
_get_relations_and_senses(root, ex) == __rel_rest_help(root, ex)

(***************************************************************************)
(* The sentences relations are extracted from                              *)
(***************************************************************************)
\* The most extractions made in one process.
MaxExtracts == 3

\* A component carrying one word, and one carrying none.
Worded(comp_id, word, roles) ==
  Component(comp_id, <<"F">>, <<>>, List(<<word>>), {}, roles)

Wordless(comp_id, roles) ==
  Component(comp_id, <<"SPEECHACT">>, <<>>, None, {}, roles)

\* KILL with an AGENT role filled by JOHN.
KillJohn ==
  Worded("V1", "KILL", <<<<Role("AGENT", <<Worded("V3", "JOHN", NoRoles)>>)>>>>)

\* The ids of the components and what hash() may give for an id string.
SentenceIds == {"V1", "V2", "V3", "V4"}

HashValues == {7, 8, 1007}

SentenceLeaves ==
  {Worded("V3", "ROCK", NoRoles), Worded("V3", "rock", NoRoles),
   Worded("V3", "JOHN", NoRoles), Wordless("V3", NoRoles), Str("PIE")}

SentenceInner ==
  UNION {{Worded("V2", "JOHN", r), Wordless("V2", r)} :
         r \in {NoRoles} \cup {<<<<Role("ASSOC", <<l>>)>>>> : l \in SentenceLeaves}}

\* A child that is listed after the first one of its role.
LaterChild == Worded("V4", "DOG", NoRoles)

\* A role-group that follows the first one.
LaterGroup == <<Role("AGENT", <<Worded("V4", "DOG", NoRoles)>>)>>

\* The first role-groups of the root: one role or two, a role with one
\* child or two.
SentenceGroups ==
  {<<Role("AGENT", <<a>>)>> : a \in SentenceInner \cup SentenceLeaves}
  \cup {<<Role("AGENT", <<a, LaterChild>>)>> : a \in SentenceInner}
  \cup {<<Role("AGENT", <<a>>), Role("AFFECTED", <<c>>)>> :
          a \in SentenceInner, c \in SentenceLeaves}

RECURSIVE AllComponents(_)
\* The components of a tree, the root included.
AllComponents(c) ==
  IF c.kind = "str" THEN {}
  ELSE {c} \cup UNION {AllComponents(ChildAt(c, ChildPaths(c)[i])) :
                         i \in DOMAIN ChildPaths(c)}

\* An id names one component: the parser keeps the components in a dict
\* keyed by id, so two places with one id hold the same component.
IdsNameComponents(root) ==
  \A a, b \in AllComponents(root) : a.comp_id = b.comp_id => a = b

\* The trees relations are extracted from: a parsed sentence has one
\* role-group, a tree built from a template may have more.
SentenceRoots ==
  {root \in {Worded("V1", "KILL", <<g>>) : g \in SentenceGroups}
           \cup {Worded("V1", "KILL", <<g, LaterGroup>>) : g \in SentenceGroups}
           \cup {Wordless("V1", <<g>>) : g \in SentenceGroups} :
     IdsNameComponents(root)}

InitExtract ==
  /\ pc = "parsed"
  /\ _root \in SentenceRoots
  /\ hash \in [SentenceIds -> HashValues]
  /\ seen = {}
  /\ earlier = <<>>
  /\ extracts = 0
  /\ registry = <<>>
  /\ answer = "none"
  /\ failure = "none"
  /\ resolves = 0
  /\ this = SubjectComp(NoRoles)
  /\ other = TemplateAny(NoRoles)
  /\ result = NoResult
  /\ NoRestrictionTest
  /\ NewResolver
  /\ NoTemplate

\* A call of Resolver._get_relations_and_senses(lf) on the Resolver as it
\* is.
GetRelationsAndSenses ==
  /\ extracts < MaxExtracts
  /\ LET ex == _get_relations_and_senses(_root, Extraction(seen, relations, senses))
     IN  /\ seen' = ex.seen
         /\ relations' = ex.relations
         /\ senses' = ex.senses
         /\ earlier' = Append(earlier, [relations |-> ex.relations, senses |-> ex.senses])
  /\ extracts' = extracts + 1
  /\ pc' = "extracted"
  /\ UNCHANGED <<hash, bindings, unsatisfied_roles, mode, error, solves,
                 matcherVars, restrictionVars, referenceVars, templateVars>>

\* A call of Resolver._reset().
Reset ==
  /\ relations' = [unary |-> {}, binary |-> {}]
  /\ senses' = EmptyDict
  /\ seen' = {}
  /\ pc' = "parsed"
  /\ UNCHANGED <<hash, earlier, extracts, bindings, unsatisfied_roles, mode, error,
                 solves, matcherVars, restrictionVars, referenceVars, templateVars>>

NextExtract == GetRelationsAndSenses \/ Reset

SpecExtract == InitExtract /\ [][NextExtract]_vars

(***************************************************************************)
(* Resolver.resolve                                                        *)
(***************************************************************************)
\* The logical forms TripsAPI.parse gives for the sentences in use.
Sentences ==
  { KillJohn,
    Worded("V1", "KILL", <<<<Role("AGENT", <<Worded("V2", "JOHN", NoRoles)>>),
                             Role("AFFECTED", <<Worded("V3", "ROCK", NoRoles)>>)>>>>),
    Worded("V1", "KILL",
           <<<<Role("AGENT", <<Worded("V2", "JOHN",
                  <<<<Role("ASSOC", <<Worded("V3", "ROCK", NoRoles)>>)>>>>)>>)>>>>),
    Worded("V1", "KILL", <<<<Role("AGENT", <<Worded("V4", "DOG", NoRoles)>>),
                             Role("MANNER", <<Str("PIE")>>)>>>>),
    Worded("V2", "JOHN", <<<<Role("AFFECTED", <<Worded("V3", "ROCK", NoRoles)>>)>>>>),
    Wordless("V1", <<<<Role("CONTENT", <<Worded("V2", "JOHN",
                  <<<<Role("AFFECTED", <<Worded("V4", "DOG", NoRoles)>>)>>>>)>>)>>>>) }

InitResolve ==
  /\ pc = "started"
  /\ hash \in [SentenceIds -> HashValues]
  /\ seen = {}
  /\ earlier = <<>>
  /\ extracts = 0
  /\ this = SubjectComp(NoRoles)
  /\ other = TemplateAny(NoRoles)
  /\ result = NoResult
  /\ NoRestrictionTest
  /\ NewResolver
  /\ NoReference
  /\ NoTemplate

\* A call of Resolver.resolve(sentence, m): the reset, the parse, the
\* extraction and the solve; the set of relations is iterated in some order.
Resolve ==
  /\ solves < MaxSolves
  /\ \E lf \in Sentences : \E m \in {"strict", "fuzzy"} :
       LET ex == _get_relations_and_senses(lf,
                   Extraction({}, [unary |-> {}, binary |-> {}], EmptyDict))
       IN  /\ _root' = lf
           /\ seen' = ex.seen
           /\ relations' = ex.relations
           /\ senses' = ex.senses
           /\ mode' = m
           /\ IF IsFuzzy(m)
              THEN /\ error' = "NotImplementedError"
                   /\ pc' = "failed"
                   /\ UNCHANGED <<bindings, unsatisfied_roles>>
              ELSE \E rels \in Orders(ex.relations.binary) :
                     LET done == GroupsLoop(ex.senses, MakeGroups(rels, 1, <<>>), 1,
                                            bindings, {})
                     IN  /\ bindings' = done.b
                         /\ unsatisfied_roles' = done.u
                         /\ error' = "none"
                         /\ pc' = "solved"
           /\ earlier' = Append(earlier, [relations |-> ex.relations, senses |-> ex.senses])
  /\ extracts' = extracts + 1
  /\ solves' = solves + 1
  /\ UNCHANGED <<registry, answer, failure, resolves, hash, matcherVars, restrictionVars,
                 templateVars>>

NextResolve == Resolve

SpecResolve == InitResolve /\ [][NextResolve]_vars

(***************************************************************************)
(* The driver: main                                                        *)
(***************************************************************************)
\* del d[k]
DictDel(d, k) == [x \in (DOMAIN d) \ {k} |-> d[x]]

RECURSIVE RemoveLoop(_, _, _)
\* The loop of main over the errors from the i-th on: del bindings[e[0]],
\* which raises KeyError for a key that is not in the table.
RemoveLoop(errors, i, b) ==
  IF i > Len(errors) THEN [b |-> b, err |-> "none"]
  ELSE IF errors[i][1] \notin DOMAIN b THEN [b |-> b, err |-> "KeyError"]
  ELSE RemoveLoop(errors, i + 1, DictDel(b, errors[i][1]))

\* resolver = Resolver(); resolver.resolve(sentence, mode)
MainResolve ==
  /\ pc = "started"
  /\ Resolve

\* The rest of main after resolve has returned: the keys the errors name
\* are deleted from the table, the set of errors iterated in some order.
RemoveUnsatisfied ==
  /\ pc = "solved"
  /\ \E errors \in Orders(unsatisfied_roles) :
       LET left == RemoveLoop(errors, 1, bindings)
       IN  /\ bindings' = left.b
           /\ error' = left.err
  /\ pc' = "removed"
  /\ UNCHANGED <<relations, senses, unsatisfied_roles, mode, solves, matcherVars,
                 restrictionVars, referenceVars, extractVars, templateVars>>

NextMain == MainResolve \/ RemoveUnsatisfied

SpecMain == InitResolve /\ [][NextMain]_vars

(***************************************************************************)
(* Template construction: LogicalForm._process_template                    *)
(***************************************************************************)
\* An attribute a tag does not have.
Absent == "<absent>"

\* A <component> tag with its id, from_id and word attributes; its children
\* are <rolegroup> tags (grouped) or <role> tags, kept as a list of groups
\* of <role> tags.
ComponentTag(id, from_id, word, grouped, groups) ==
  [tag |-> "component", id |-> id, from_id |-> from_id, word |-> word,
   grouped |-> grouped, groups |-> groups]

\* A <role> tag and a plain text child of one.
RoleTag(name, kids) == [tag |-> "role", name |-> name, kids |-> kids]

Text(str) == [tag |-> "text", text |-> str]

\* The largest number an id is written with.
MaxNumber == 8

\* int(str): the number a string is read as, or that it is not one. A
\* number may be written with leading zeros.
int(str) ==
  IF \E n \in (0 - MaxNumber)..MaxNumber : ToString(n) = str
  THEN [ok |-> TRUE, val |-> CHOOSE n \in (0 - MaxNumber)..MaxNumber : ToString(n) = str]
  ELSE IF str = "-01" THEN [ok |-> TRUE, val |-> 0 - 1]
  ELSE [ok |-> FALSE, val |-> 0]

\* The test on a supplied id: it reads as a number below zero.
IsNegative(str) == int(str).ok /\ int(str).val < 0

\* What a parse has done so far: the class counter, the ids it generated,
\* the ids it took from attributes, and the exception it ended with.
Progress(n, auto, given, err) == [n |-> n, auto |-> auto, given |-> given, err |-> err]

\* LogicalForm._next_id: the counter goes down by one and its text is the id.
_next_id(st) ==
  [st EXCEPT !.n = st.n - 1, !.auto = Append(st.auto, ToString(st.n - 1))]

\* rg[name] = comps on a dict kept as a list of items.
RoleSet(rg, name, comps) ==
  IF name \in RoleNames(rg)
  THEN [i \in DOMAIN rg |-> IF rg[i].name = name THEN Role(name, comps) ELSE rg[i]]
  ELSE Append(rg, Role(name, comps))

RECURSIVE __parse_component(_, _)
RECURSIVE ParseKids(_, _, _, _)
RECURSIVE ParseRoles(_, _, _, _)
RECURSIVE ParseGroups(_, _, _, _)

\* The loop of __parse_role over the children of a <role> from the i-th on.
ParseKids(kids, i, comps, st) ==
  IF i > Len(kids) \/ st.err /= "none" THEN [comps |-> comps, st |-> st]
  ELSE IF kids[i].tag = "text"
  THEN LET st1 == _next_id(st)
           tmp == Component(ToString(st1.n), <<>>, <<>>, List(<<kids[i].text>>), {},
                            NoRoles)
       IN  ParseKids(kids, i + 1, Append(comps, tmp), st1)
  ELSE LET kid == __parse_component(kids[i], st)
       IN  ParseKids(kids, i + 1, Append(comps, kid.comp), kid.st)

\* The <role> tags of one role-group from the i-th on, put into a dict.
ParseRoles(roles, i, rg, st) ==
  IF i > Len(roles) \/ st.err /= "none" THEN [rg |-> rg, st |-> st]
  ELSE LET kids == ParseKids(roles[i].kids, 1, <<>>, st)
       IN  ParseRoles(roles, i + 1, RoleSet(rg, upper(roles[i].name), kids.comps),
                      kids.st)

\* The role-groups of a <component> from the i-th on.
ParseGroups(groups, i, roles, st) ==
  IF i > Len(groups) \/ st.err /= "none" THEN [roles |-> roles, st |-> st]
  ELSE LET rg == ParseRoles(groups[i], 1, <<>>, st)
       IN  ParseGroups(groups, i + 1,
                       IF i > Len(roles) THEN Append(roles, rg.rg)
                       ELSE [roles EXCEPT ![i] = rg.rg],
                       rg.st)

\* LogicalForm.__parse_component(root)
__parse_component(root, st) ==
  IF root.from_id /= Absent
  THEN [comp |-> Placeholder(root.from_id),
        st |-> [st EXCEPT !.given = @ \cup {root.from_id}]]
  ELSE IF root.id /= Absent /\ IsNegative(root.id)
  THEN [comp |-> Placeholder(root.id), st |-> [st EXCEPT !.err = "CommandTemplateError"]]
  ELSE LET st1 == IF root.id /= Absent THEN [st EXCEPT !.given = @ \cup {root.id}]
                  ELSE _next_id(st)
           comp_id == IF root.id /= Absent THEN root.id ELSE ToString(st1.n)
           word == IF root.word /= Absent THEN List(<<upper(root.word)>>) ELSE List(<<>>)
           done == IF root.grouped
                   THEN ParseGroups(root.groups, 1, NoRoles, st1)
                   ELSE ParseRoles(Concat(root.groups), 1, <<>>, st1)
       IN  [comp |-> Component(comp_id, <<>>, <<>>, word, {},
                               IF root.grouped THEN done.roles ELSE <<done.rg>>),
            st |-> done.st]

\* LogicalForm(template=...): the root component, or the exception.
_process_template(template, n) == __parse_component(template, Progress(n, <<>>, {}, "none"))

(***************************************************************************)
(* The templates that are built                                            *)
(***************************************************************************)
\* The most templates built in one process.
MaxBuilds == 2

\* Tags without children: an id is generated, supplied, supplied as a
\* negative number, or the component is a reference.
LeafTags ==
  {ComponentTag(i, Absent, "rock", FALSE, <<>>) : i \in {Absent, "A", "-1", "-01", "1"}}
  \cup {ComponentTag(Absent, f, Absent, FALSE, <<>>) : f \in {"X", "-1", "-2"}}

KidLists ==
  {<<k>> : k \in LeafTags \cup {Text("pie")}}
  \cup {<<k, Text("pie")>> : k \in LeafTags}

\* A component in the middle of a template.
InnerTags ==
  {ComponentTag(Absent, Absent, Absent, FALSE, <<<<RoleTag("affected", l)>>>>) :
     l \in KidLists}

TagGroups ==
  {<<>>}
  \cup {<<<<RoleTag("agent", l)>>>> : l \in KidLists}
  \cup {<<<<RoleTag("agent", <<k>>)>>>> : k \in InnerTags}
  \cup {<<<<RoleTag("agent", <<k>>)>>, <<RoleTag("agent", <<Text("pie")>>)>>>> :
          k \in LeafTags}

Templates ==
  {ComponentTag(i, Absent, "kill", Len(g) = 2, g) : i \in {Absent, "A"}, g \in TagGroups}

InitTemplate ==
  /\ pc = "started"
  /\ component_id = 0
  /\ builds = <<>>
  /\ this = SubjectComp(NoRoles)
  /\ other = TemplateAny(NoRoles)
  /\ result = NoResult
  /\ NoRestrictionTest
  /\ NewResolver
  /\ NoReference
  /\ NoExtraction

\* LogicalForm(template=t): the tree is kept when the build raised nothing.
BuildTemplate ==
  /\ Len(builds) < MaxBuilds
  /\ \E template \in Templates :
       LET built == _process_template(template, component_id)
       IN  /\ component_id' = built.st.n
           /\ _root' = IF built.st.err = "none" THEN built.comp ELSE _root
           /\ failure' = built.st.err
           /\ builds' = Append(builds, [auto |-> built.st.auto, given |-> built.st.given,
                                        err |-> built.st.err])
  /\ pc' = "built"
  /\ UNCHANGED <<registry, answer, resolves, matcherVars, restrictionVars, resolverVars,
                 extractVars>>

NextTemplate == BuildTemplate

SpecTemplate == InitTemplate /\ [][NextTemplate]_vars

(***************************************************************************)
(* Claims about the template matcher                                       *)
(***************************************************************************)
Matched == pc = "matched"

\* The (subject role-group, template role-group) pairs the matcher tries.
EligiblePairs(t, o) == Range(check_q(t, o))

\* The subject's first child under the role matches some child the template
\* lists for it.
FirstSubjectChildMatches(trg, org, name) ==
  \E j \in DOMAIN RoleComps(org, name) :
    _compare_help(RoleComps(trg, name)[1], RoleComps(org, name)[j]).ok

\* Some child of the subject under the role matches the template's first
\* child for it.
SomeSubjectChildMatches(trg, org, name) ==
  \E i \in DOMAIN RoleComps(trg, name) :
    _compare_help(RoleComps(trg, name)[i], RoleComps(org, name)[1]).ok

\* C1 as stated: a template role of an eligible pair is satisfied iff some
\* child of the subject under that role matches the template's first child,
\* so that the components match iff their surfaces do and some eligible pair
\* has every template role satisfied in that sense.
C1_AnySubjectChildSatisfies ==
  Matched =>
    (result.ok <=>
       /\ SurfaceMatch(this, other)
       /\ \E p \in EligiblePairs(this, other) :
            \A name \in RoleNames(other.roles[p[2]]) :
              SomeSubjectChildMatches(this.roles[p[1]], other.roles[p[2]], name))

\* C1 (amended): a template role of an eligible pair is satisfied iff the
\* subject's FIRST child under that role matches at least one of the children
\* the template lists for the role; the components match iff their surfaces
\* do and some eligible pair has every template role satisfied in that sense.
C1_FirstSubjectChildSatisfies ==
  Matched =>
    (result.ok <=>
       /\ SurfaceMatch(this, other)
       /\ \E p \in EligiblePairs(this, other) :
            \A name \in RoleNames(other.roles[p[2]]) :
              FirstSubjectChildMatches(this.roles[p[1]], other.roles[p[2]], name))

\* A match won by a later alternative of the template: one role-group each,
\* a role whose first template child fails against the subject's first child
\* while a later one matches.
C1_Witness ==
  /\ Matched /\ result.ok
  /\ Len(this.roles) = 1 /\ Len(other.roles) = 1
  /\ \E name \in RoleNames(other.roles[1]) :
       /\ Len(RoleComps(other.roles[1], name)) >= 2
       /\ ~_compare_help(RoleComps(this.roles[1], name)[1],
                         RoleComps(other.roles[1], name)[1]).ok
       /\ FirstSubjectChildMatches(this.roles[1], other.roles[1], name)

\* The first word of a subject node, as the matcher binds it: the literal
\* itself for a string, None for a component without words.
FirstWord(t) ==
  IF t.kind = "str" THEN t.text
  ELSE IF TruthyOpt(t.word) THEN t.word.items[1] ELSE NoneVal

RECURSIVE Participants(_, _)
RECURSIVE RoleParticipants(_, _, _)

\* The accepted pair of a successful match: the first eligible pair all of
\* whose template roles are satisfied.
AcceptedPair(t, o) ==
  LET q == check_q(t, o)
      good(k) == \A name \in RoleNames(o.roles[q[k][2]]) :
                   FirstSubjectChildMatches(t.roles[q[k][1]], o.roles[q[k][2]], name)
  IN  q[CHOOSE k \in DOMAIN q : good(k) /\ \A h \in 1..(k - 1) : ~good(h)]

\* The (template node, subject node) pairs of the accepted match below the
\* roles n.. of the accepted pair, in the order the subject lists the roles.
RoleParticipants(trg, org, n) ==
  IF n > Len(trg) THEN <<>>
  ELSE IF trg[n].name \notin RoleNames(org) THEN RoleParticipants(trg, org, n + 1)
  ELSE
    LET cands == RoleComps(org, trg[n].name)
        j == CHOOSE c \in DOMAIN cands :
               /\ _compare_help(trg[n].comps[1], cands[c]).ok
               /\ \A b \in 1..(c - 1) : ~_compare_help(trg[n].comps[1], cands[b]).ok
    IN  Participants(trg[n].comps[1], cands[j]) \o RoleParticipants(trg, org, n + 1)

\* The (template node, subject node) pairs that took part in the accepted
\* match of t against o, a node before the nodes below it.
Participants(t, o) ==
  IF t.kind = "str" THEN << [pat |-> o, sub |-> t] >>
  ELSE LET p == AcceptedPair(t, o)
       IN  << [pat |-> o, sub |-> t] >>
             \o RoleParticipants(t.roles[p[1]], o.roles[p[2]], 1)

\* Every parameter name a component of the template declares.
RECURSIVE DeclaredParams(_)
DeclaredParams(o) ==
  o.param_mapping \cup
    UNION {UNION {UNION {DeclaredParams(o.roles[g][r].comps[c]) :
                           c \in DOMAIN o.roles[g][r].comps} :
                    r \in DOMAIN o.roles[g]} :
             g \in DOMAIN o.roles}

\* C2 as stated: after a successful match every parameter name declared on a
\* template node that took part in the accepted match is bound to the first
\* word of the subject node that template node was matched against, and a
\* template declaring no parameter yields the empty map.
C2_EveryDeclaringNodeBinds ==
  (Matched /\ result.ok) =>
    LET P == Participants(this, other)
    IN  /\ \A i \in DOMAIN P : \A name \in P[i].pat.param_mapping :
             /\ name \in DOMAIN result.params
             /\ result.params[name] = FirstWord(P[i].sub)
        /\ DeclaredParams(other) = {} => result.params = NoParams

\* C2 (amended): after a successful match the map binds exactly the names
\* declared on the template nodes that took part in the accepted match, each
\* to the first word of the subject node matched against the FIRST such node
\* declaring it (a node before the nodes below it, the roles in the order
\* the subject lists them); a template declaring no parameter yields the
\* empty map.
C2_FirstDeclaringNodeBinds ==
  (Matched /\ result.ok) =>
    LET P == Participants(this, other)
        declares(i, name) == name \in P[i].pat.param_mapping
        first(name) == CHOOSE i \in DOMAIN P :
                         declares(i, name) /\ \A h \in 1..(i - 1) : ~declares(h, name)
    IN  /\ DOMAIN result.params = UNION {P[i].pat.param_mapping : i \in DOMAIN P}
        /\ \A name \in DOMAIN result.params :
             result.params[name] = FirstWord(P[first(name)].sub)
        /\ DeclaredParams(other) = {} => result.params = NoParams

\* A successful match in which two participating template nodes declare the
\* same name against subject nodes with different first words, and the map
\* holds the word of the one met first.
C2_Witness ==
  /\ Matched /\ result.ok
  /\ LET P == Participants(this, other)
     IN  \E i, h \in DOMAIN P : \E name \in P[i].pat.param_mapping :
           /\ i < h
           /\ name \in P[h].pat.param_mapping
           /\ \A g \in 1..(i - 1) : name \notin P[g].pat.param_mapping
           /\ FirstWord(P[i].sub) /= FirstWord(P[h].sub)
           /\ result.params[name] = FirstWord(P[i].sub)

\* The node-level test as the claim words it, on sets: each of indicators,
\* types and words passes when either side has none or the two share one.
SetsAgree(a, b) == a = {} \/ b = {} \/ a \cap b /= {}

NodeTest(t, o) ==
  /\ SetsAgree(Range(t.indicator), Range(o.indicator))
  /\ SetsAgree(Range(t.comp_type), Range(o.comp_type))
  /\ SetsAgree(IF t.word.none THEN {} ELSE Range(t.word.items),
               IF o.word.none THEN {} ELSE Range(o.word.items))

\* C3: two components pass the node-level test iff, for indicators, for
\* types and for words independently, either side's set is empty (None or
\* [] for words) or the sets intersect: when the test fails the result is
\* false with an empty parameter map whatever the roles are, and for
\* components without roles the result is exactly the test.
C3_NodeTest ==
  Matched =>
    /\ ~NodeTest(this, other) => result = Returned(FALSE, NoParams)
    /\ result.ok => NodeTest(this, other)
    /\ (this.roles = NoRoles /\ other.roles = NoRoles) =>
         (result.ok <=> NodeTest(this, other))

\* Two components with overlapping, not equal, word lists and a wildcard on
\* one side pass; the template declares a parameter.
C3_Witness ==
  /\ Matched /\ result.ok
  /\ this.indicator = <<>> /\ other.indicator /= <<>>
  /\ this.word = List(<<"PIE">>) /\ other.word = List(<<"CAKE", "PIE">>)
  /\ this.comp_type /= <<>> /\ other.comp_type /= <<>>
  /\ this.comp_type /= other.comp_type
  /\ other.param_mapping /= {}

RECURSIVE AllWild(_)
\* Every component of the template has wildcard indicators, types and words.
AllWild(o) ==
  /\ o.indicator = <<>> /\ o.comp_type = <<>> /\ ~TruthyOpt(o.word)
  /\ \A g \in DOMAIN o.roles : \A r \in DOMAIN o.roles[g] :
       \A c \in DOMAIN o.roles[g][r].comps : AllWild(o.roles[g][r].comps[c])

RECURSIVE SameShape(_, _)
\* The subject has the template's role shape: the same role-groups with the
\* same role names and as many children, at every level (a literal string
\* has no roles).
SameShape(t, o) ==
  IF t.kind = "str" THEN o.roles = NoRoles
  ELSE /\ Len(t.roles) = Len(o.roles)
       /\ \A g \in DOMAIN t.roles :
            /\ Len(t.roles[g]) = Len(o.roles[g])
            /\ \A r \in DOMAIN t.roles[g] :
                 /\ t.roles[g][r].name = o.roles[g][r].name
                 /\ Len(t.roles[g][r].comps) = Len(o.roles[g][r].comps)
                 /\ \A c \in DOMAIN t.roles[g][r].comps :
                      SameShape(t.roles[g][r].comps[c], o.roles[g][r].comps[c])

\* C4: a template all of whose components have wildcard indicators, types
\* and words matches every subject with the same role shape, whether the
\* subject's role children are Components or literal strings.
C4_WildcardTemplateMatches ==
  (Matched /\ AllWild(other) /\ SameShape(this, other)) => result.ok

Perms(n) == {f \in [1..n -> 1..n] : \A i, j \in 1..n : f[i] = f[j] => i = j}

\* The component with its role-groups listed in order f.
PermuteGroups(c, f) == [c EXCEPT !.roles = [i \in DOMAIN c.roles |-> c.roles[f[i]]]]

RECURSIVE ReverseGroups(_)
\* The component with the role-groups of every component in it reversed.
ReverseGroups(c) ==
  IF c.kind = "str" THEN c
  ELSE [c EXCEPT !.roles =
          [g \in DOMAIN c.roles |->
             LET rg == c.roles[Len(c.roles) + 1 - g]
             IN  [r \in DOMAIN rg |->
                    [rg[r] EXCEPT !.comps =
                       [k \in DOMAIN rg[r].comps |-> ReverseGroups(rg[r].comps[k])]]]]]

\* C6: the boolean result of match_template is the same for every order of
\* the role-groups of the subject and every order of the role-groups of the
\* template (at the root, and with the groups of every component reversed).
C6_GroupOrderIrrelevant ==
  Matched =>
    /\ \A f \in Perms(Len(this.roles)) : \A h \in Perms(Len(other.roles)) :
         match_template(PermuteGroups(this, f), PermuteGroups(other, h)).ok = result.ok
    /\ match_template(ReverseGroups(this), other).ok = result.ok
    /\ match_template(this, ReverseGroups(other)).ok = result.ok

\* A match accepted by a pair of role-groups that is not the first pair
\* tried, on a subject with two role-groups.
C6_Witness ==
  /\ Matched /\ result.ok
  /\ Len(this.roles) >= 2
  /\ Len(check_q(this, other)) >= 2
  /\ AcceptedPair(this, other) /= check_q(this, other)[1]

(***************************************************************************)
(* Claims about matches_restrictions                                       *)
(***************************************************************************)
Tested == pc = "tested"

\* The names a type restriction can be met by: the sense's own and those of
\* its ancestry chain.
NamesOf(sn) == {sn.name} \cup Range(sn.ancestry)

\* A restriction is satisfied, as the claim words it.
Satisfied(sn, r) ==
  CASE r.type \in {"type", "typeq"} ->
         wildcard(r) \/ NamesOf(sn) \cap Range(r.values.items) /= {}
    [] r.type = "features" ->
         \A f \in Range(r.values.items) :
           f.isStr => /\ f.name \in DOMAIN sn.features
                      /\ lower(sn.features[f.name]) = lower(f.val)
    [] OTHER -> TRUE

Solved == pc = "solved"

\* The type variables with a child, and the children of one.
ParentVars == {rel[1] : rel \in relations.binary}

ChildVars(parent) == {rel[2] : rel \in {x \in relations.binary : x[1] = parent}}

\* The (child, child sense) pairs that satisfy every restriction of a role.
Satisfying(parent, r) ==
  {Binding(c, senses[c][i].name) : <<c, i>> \in
     {ci \in ChildVars(parent) \X (1..MaxSenses + 1) :
        /\ ci[2] \in DOMAIN senses[ci[1]]
        /\ matches_restrictions(senses[ci[1]][ci[2]], r.restrictions)}}

\* The (parent, sense, role) triples the solver can be asked about.
ParentRoles ==
  UNION {UNION {{<<parent, p_sense, r>> : r \in Range(p_sense.roles)} :
                  p_sense \in Range(senses[parent])} :
           parent \in ParentVars}

NoDuplicates(list) == \A i, j \in DOMAIN list : i /= j => list[i] /= list[j]

\* C7: after the first strict solve of a Resolver, the entry of a relevant
\* role of a parent sense holds exactly the (child, child sense) pairs
\* that satisfy the role, each of them once.
C7_BindingsAreTheSatisfyingPairs ==
  (Solved /\ solves = 1) =>
    \A pr \in ParentRoles :
      LET key == Binding(pr[1], pr[2].name)
          r == pr[3]
      IN  is_specific(r) =>
            /\ key \in DOMAIN bindings
            /\ r.role \in DOMAIN bindings[key]
            /\ Range(bindings[key][r.role]) = Satisfying(pr[1], r)
            /\ NoDuplicates(bindings[key][r.role])

\* A first solve after which one role holds two senses of one child and a
\* sense of another child.
C7_Witness ==
  /\ Solved /\ solves = 1
  /\ \E pr \in ParentRoles :
       LET list == bindings[Binding(pr[1], pr[2].name)][pr[3].role]
       IN  /\ is_specific(pr[3])
           /\ \E i, j, k \in DOMAIN list :
                /\ list[i][1] = list[j][1] /\ list[i][2] /= list[j][2]
                /\ list[k][1] /= list[i][1]

\* C8 as stated: every required role of a parent sense that no child sense
\* satisfies is in the unsatisfied set.
C8_RequiredRoleIsReported ==
  Solved =>
    \A pr \in ParentRoles :
      (~pr[3].optional /\ Satisfying(pr[1], pr[3]) = {})
        => <<Binding(pr[1], pr[2].name), pr[3].role>> \in unsatisfied_roles

\* C8: every required role of a parent sense that has no wildcard restriction
\* and that no child sense satisfies is in the unsatisfied set.
C8_RelevantRequiredRoleIsReported ==
  Solved =>
    \A pr \in ParentRoles :
      (is_specific(pr[3]) /\ ~pr[3].optional /\ Satisfying(pr[1], pr[3]) = {})
        => <<Binding(pr[1], pr[2].name), pr[3].role>> \in unsatisfied_roles

\* A solve that reports a required role while another role of the same
\* parent holds a child sense.
C8_Witness ==
  /\ Solved
  /\ \E pr \in ParentRoles :
       LET key == Binding(pr[1], pr[2].name)
       IN  /\ is_specific(pr[3]) /\ ~pr[3].optional
           /\ Satisfying(pr[1], pr[3]) = {}
           /\ <<key, pr[3].role>> \in unsatisfied_roles
           /\ \E name \in DOMAIN bindings[key] : bindings[key][name] /= <<>>

\* The parent senses all of whose roles without a satisfying child sense
\* are optional.
OnlyOptionalUnmatched(parent, p_sense) ==
  \A r \in Range(p_sense.roles) : Satisfying(parent, r) = {} => r.optional

\* The markers that name a key.
MarkersOf(key) == {m \in unsatisfied_roles : m[1] = key}

\* C9 as stated: when the roles of a parent sense that no child sense
\* satisfies are all optional, no marker names its key and the key is in the
\* binding table.
C9_OptionalRoleLeavesNoMarker ==
  Solved =>
    \A parent \in ParentVars : \A p_sense \in Range(senses[parent]) :
      OnlyOptionalUnmatched(parent, p_sense) =>
        /\ MarkersOf(Binding(parent, p_sense.name)) = {}
        /\ Binding(parent, p_sense.name) \in DOMAIN bindings

\* C9: when the roles of a parent sense that no child sense satisfies are
\* all optional, no role of the sense is named by a marker (the one marker
\* that can name its key is the catch-all, present exactly when the key has
\* an entry for every role of the sense and every entry is empty), and the
\* key is in the binding table with an entry for each role that has no
\* wildcard restriction.
C9_OptionalRoleLeavesNoRoleMarker ==
  Solved =>
    \A parent \in ParentVars : \A p_sense \in Range(senses[parent]) :
      LET key == Binding(parent, p_sense.name)
      IN  OnlyOptionalUnmatched(parent, p_sense) =>
            /\ MarkersOf(key) \subseteq {<<key, "ALL">>}
            /\ key \in DOMAIN bindings
            /\ <<key, "ALL">> \in unsatisfied_roles
                 <=> /\ Cardinality(DOMAIN bindings[key]) = Len(p_sense.roles)
                     /\ \A name \in DOMAIN bindings[key] : bindings[key][name] = <<>>
            /\ \A r \in Range(p_sense.roles) :
                 is_specific(r) => r.role \in DOMAIN bindings[key]

\* A solve in which an optional role of a parent sense has no satisfying
\* child sense, its entry is empty and another role of the sense is filled.
C9_Witness ==
  /\ Solved
  /\ \E pr \in ParentRoles :
       LET key == Binding(pr[1], pr[2].name)
       IN  /\ OnlyOptionalUnmatched(pr[1], pr[2])
           /\ is_specific(pr[3]) /\ pr[3].optional
           /\ Satisfying(pr[1], pr[3]) = {}
           /\ bindings[key][pr[3].role] = <<>>
           /\ \E name \in DOMAIN bindings[key] : bindings[key][name] /= <<>>
           /\ MarkersOf(key) = {}

\* Every role entry recorded for a key in the binding table is empty.
EntriesEmpty(key) == \A name \in DOMAIN bindings[key] : bindings[key][name] = <<>>

\* C18 as stated: after a strict solve the catch-all marker of a parent
\* sense is in the unsatisfied set exactly when every role entry recorded
\* for its key is empty.
C18_AllMarkerIffEntriesEmpty ==
  Solved =>
    \A parent \in ParentVars : \A p_sense \in Range(senses[parent]) :
      LET key == Binding(parent, p_sense.name)
      IN  <<key, "ALL">> \in unsatisfied_roles <=> EntriesEmpty(key)

\* C18: after a strict solve the catch-all marker of a parent sense is in
\* the unsatisfied set exactly when no role of the sense has a wildcard
\* restriction and every role entry recorded for its key is empty.
C18_AllMarkerIffNoWildcardAndEntriesEmpty ==
  Solved =>
    \A parent \in ParentVars : \A p_sense \in Range(senses[parent]) :
      LET key == Binding(parent, p_sense.name)
      IN  <<key, "ALL">> \in unsatisfied_roles
            <=> /\ \A r \in Range(p_sense.roles) : is_specific(r)
                /\ EntriesEmpty(key)

\* A solve that records the catch-all marker for a sense with a role, and
\* none for a sense whose only empty entry stands beside a wildcard role.
C18_Witness ==
  /\ Solved
  /\ \E parent \in ParentVars : \E p_sense, q_sense \in Range(senses[parent]) :
       /\ p_sense.roles /= <<>>
       /\ <<Binding(parent, p_sense.name), "ALL">> \in unsatisfied_roles
       /\ DOMAIN bindings[Binding(parent, q_sense.name)] /= {}
       /\ EntriesEmpty(Binding(parent, q_sense.name))
       /\ <<Binding(parent, q_sense.name), "ALL">> \notin unsatisfied_roles

\* C11: a call of _satisfy_constraints in fuzzy mode ends with the
\* not-implemented error and leaves the binding table as it was, whatever the
\* relations, the senses and the table are.
C11_FuzzyFailsAtOnce ==
  [][(solves' = solves + 1 /\ mode' = "fuzzy")
       => (error' = "NotImplementedError" /\ pc' = "failed" /\ bindings' = bindings)]_vars

\* A fuzzy call that failed on a Resolver whose binding table an earlier
\* strict call had filled.
C11_Witness ==
  /\ pc = "failed" /\ mode = "fuzzy" /\ error = "NotImplementedError"
  /\ \E key \in DOMAIN bindings : \E name \in DOMAIN bindings[key] :
       bindings[key][name] /= <<>>

(***************************************************************************)
(* Claims about ID resolution                                              *)
(***************************************************************************)
RECURSIVE References(_)
\* The ids of the unresolved references in a tree: the component itself and
\* the components below it, through every role of every role-group.
References(c) ==
  IF c.kind = "str" THEN {}
  ELSE (IF c.resolved THEN {} ELSE {c.comp_id})
       \cup UNION {References(ChildAt(c, p)) : p \in Range(ChildPaths(c))}

\* C12: the resolved query is true iff neither the component nor any
\* component reachable from it is an unresolved reference.
C12_ResolvedIffNoReference ==
  answer /= "none" =>
    /\ answer \in {"True", "False"}
    /\ answer = "True" <=> References(_root) = {}

\* A step that is a call of LogicalForm.resolve.
ResolveCalled == resolves' = resolves + 1

\* C13: resolve on a tree without unresolved references raises nothing and
\* leaves the tree as it was, whatever the registry is.
C13_ResolveOfResolvedIsNoOp ==
  [][(ResolveCalled /\ References(_root) = {})
       => (failure' = "none" /\ _root' = _root)]_vars

ReferencesWith(c, table) ==
  References(c) \cup UNION {References(table[id]) : id \in DOMAIN table}

\* C21: when resolve returns without an exception on a tree whose reference
\* ids, those inside the targets of the registry included, are all keys of
\* the registry, the tree holds no unresolved reference afterwards.
C21_ResolveLeavesNoReference ==
  [][(/\ ResolveCalled
      /\ failure' = "none"
      /\ ReferencesWith(_root, registry') \subseteq DOMAIN registry')
       => References(_root') = {}]_vars

\* C24: a resolve that ends with CommandTemplateError leaves the tree as it
\* was before the call.
C24_FailedResolveChangesNothing ==
  [][(ResolveCalled /\ failure' = "CommandTemplateError") => _root' = _root]_vars

(***************************************************************************)
(* Claims about relation extraction                                        *)
(***************************************************************************)
\* C15: every extraction made on one tree in one process, on the same
\* Resolver as it is or after a reset, leaves the same relations, the same
\* keys of the sense map and so the same type variable names.
C15_ExtractionIsRepeatable ==
  \A i, j \in DOMAIN earlier :
    /\ earlier[i].relations = earlier[j].relations
    /\ DOMAIN earlier[i].senses = DOMAIN earlier[j].senses

\* The tree was extracted more than once and binary relations were found;
\* a type variable name came from an id whose hash is 7.
C15_Witness ==
  /\ Len(earlier) >= 2
  /\ pc = "extracted"
  /\ seen /= {}
  /\ earlier[Len(earlier)].relations.binary /= {}
  /\ \E x \in DOMAIN earlier[1].senses : x[2] = 7

\* The components of the tree that carry a word and were walked through.
Named == {c \in AllComponents(_root) : TruthyOpt(c.word) /\ c.comp_id \in seen}

\* C16: after an extraction, two walked components with different ids and
\* the same first word have different type variable names.
C16_NamesDoNotCollide ==
  pc = "extracted" =>
    \A a, b \in Named :
      (a.comp_id /= b.comp_id /\ a.word.items[1] = b.word.items[1])
        => get_tvar(a) /= get_tvar(b)

RECURSIVE Walked(_)
\* The components reached from a component through the first child of the
\* roles of first role-groups.
Walked(c) ==
  IF c.kind = "str" THEN {}
  ELSE {c} \cup UNION {Walked(c.roles[1][i].comps[1]) : i \in DOMAIN c.roles[1]}

\* The first children of the roles of the first role-group of a component.
FirstChildren(c) == {c.roles[1][i].comps[1] : i \in DOMAIN c.roles[1]}

\* The pairs of a walked component with a word and a first child with a
\* word.
WordPairs(root) ==
  UNION {{<<p, c>> : c \in {k \in FirstChildren(p) : k.kind = "comp" /\ TruthyOpt(k.word)}} :
         p \in {w \in Walked(root) : TruthyOpt(w.word)}}

\* C17: after an extraction into a fresh or reset Resolver the binary
\* relations are the pairs (P, C) of a walked component P with a word and
\* a first-listed child C, with a word, of a role of its first role-group;
\* nothing outside that walk is seen; and KILL with AGENT JOHN leaves two
\* unary relations and the one binary relation.
C17_FirstChildrenOfFirstGroup ==
  pc = "extracted" =>
    /\ relations.binary = {<<get_tvar(pr[1]), get_tvar(pr[2])>> : pr \in WordPairs(_root)}
    /\ seen \subseteq {c.comp_id : c \in Walked(_root)}
    /\ _root = KillJohn =>
         /\ relations.unary = {get_tvar(KillJohn), get_tvar(Worded("V3", "JOHN", NoRoles))}
         /\ Cardinality(relations.unary) = 2
         /\ relations.binary =
              {<<get_tvar(KillJohn), get_tvar(Worded("V3", "JOHN", NoRoles))>>}

\* A tree with a later child and a later role-group, both with a word, was
\* extracted and left a relation with the first child alone.
C17_Witness ==
  /\ pc = "extracted"
  /\ Len(_root.roles) = 2
  /\ Len(_root.roles[1][1].comps) = 2
  /\ Cardinality(relations.binary) = 1
  /\ "V4" \notin seen

(***************************************************************************)
(* Claims about template construction                                      *)
(***************************************************************************)
\* C19: in every build that ended without an exception the generated ids
\* are pairwise distinct, each reads as a negative number, and none of
\* them is an id the build took from an id or a from_id attribute.
C19_GeneratedIdsAreApart ==
  \A b \in DOMAIN builds :
    builds[b].err = "none" =>
      /\ NoDuplicates(builds[b].auto)
      /\ \A a \in Range(builds[b].auto) : IsNegative(a)
      /\ Range(builds[b].auto) \cap builds[b].given = {}

\* C23: every type variable of a binary relation, parent or child, is a
\* unary relation too and a key of the sense map, so the solver finds the
\* senses of every parent and child it looks up.
C23_RelatedVariablesHaveSenses ==
  \A rel \in relations.binary :
    /\ rel[1] \in relations.unary /\ rel[1] \in DOMAIN senses
    /\ rel[2] \in relations.unary /\ rel[2] \in DOMAIN senses

\* An extraction in which one component with a word is the first child of
\* roles of two components, so that the walk met it a second time after it
\* had been seen, and in which two components share a type variable name.
C23_Witness ==
  /\ pc = "extracted"
  /\ Cardinality(relations.binary) >= 2
  /\ \E p, q \in WordPairs(_root) : p[1] /= q[1] /\ p[2] = q[2]
  /\ \E a, b \in Named : a.comp_id /= b.comp_id /\ get_tvar(a) = get_tvar(b)

(***************************************************************************)
(* Claims about Resolver.resolve                                           *)
(***************************************************************************)
\* The binding table a Resolver with an empty table leaves for the relations
\* and senses of the last sentence, iterated in the order rels.
FreshTable(rels) == GroupsLoop(senses, MakeGroups(rels, 1, <<>>), 1, EmptyDict, {}).b

\* C20: after a strict call of resolve the binding table is the one a
\* Resolver with an empty table gives for the sentence: its keys are of
\* type variables of this sentence and no list holds a pair twice.
C20_TableIsOfTheLastSentence ==
  Solved =>
    /\ \E rels \in Orders(relations.binary) : bindings = FreshTable(rels)
    /\ \A key \in DOMAIN bindings :
         /\ key[1] \in relations.unary
         /\ \A name \in DOMAIN bindings[key] : NoDuplicates(bindings[key][name])

(***************************************************************************)
(* Claims about the driver                                                 *)
(***************************************************************************)
\* A step that is the removal made by main.
RemovalMade == pc = "solved" /\ pc' = "removed"

\* The keys the markers of the unsatisfied set name.
MarkedKeys == {m[1] : m \in unsatisfied_roles}

\* C22: the removal made by main on what a strict resolve returned ends
\* without an exception and takes out of the binding table the keys the
\* unsatisfied set names, and nothing else.
C22_RemovalTakesTheMarkedKeys ==
  [][RemovalMade =>
       /\ error' = "none"
       /\ DOMAIN bindings' = (DOMAIN bindings) \ MarkedKeys
       /\ \A key \in DOMAIN bindings' : bindings'[key] = bindings[key]]_vars

====
